---- MODULE Spec2Model ----
(***************************************************************************)
(* Local-first journal synchronisation of JournalModal.tsx: optimistic     *)
(* paint from localStorage, cache-replica read followed by a server read   *)
(* raced against a deadline, debounced saves, retry and force-save.        *)
(* Time is kept as the remaining milliseconds of every armed timer.        *)
(***************************************************************************)
EXTENDS Integers, Sequences, FiniteSets, TLC

\* ---------------------------------------------------------------- bounds
NumKeys == 2
MaxActs == 3
TickMs == 1000

\* ------------------------------------------------------ program constants
DebounceMs == 1000
TimeoutMs == 3000

Keys == 1..NumKeys
Diaries == {"a", "b"}
Texts == {"x"}

Absent == <<>>
Present(e) == <<e>>
Entry(d, t, u) == [diary |-> d, tasks |-> t, updatedAt |-> u]

\* records that exist before the session starts
LocalSeed == Entry("c", <<>>, 0)
ReplicaSeed == Entry("r", <<>>, 0)
ServerSeed == Entry("s", <<>>, 0)

\* selectedDate, isOpen: the period shown and the modal's prop
\* diary .. hasUserEdited: the component's useState values
\* localCache, remote: localStorage entries and server documents per period
\* timers: armed debounce timers, ref marking the one saveTimerRef holds
\* loads, retries, saves: loadJournal, retryLoad and saveJournal calls in flight
\* clock: stand-in for new Date() at each flush
\* quotaExceeded: localStorage.setItem throws (the storage quota is used up)
VARIABLES
  quotaExceeded, selectedDate, isOpen,
  diary, tasks, loading, syncing, saving, loadFailed, hasUserEdited,
  localCache, remote,
  timers, loads, retries, saves,
  clock, trace, puts, applied, sinceEdit, sinceSched, lastEdit, lastSched, ev

\* the MonthlyTasks component --
\* selectedMonth: the month prop; tasksData, monthLoading: its useState values
\* monthLoads, monthSaves: loadTasks and saveTasks calls in flight
\* monthRemote: the monthlyTasks documents per month
\* monthActs: handler calls so far; monthPuts: the setDoc calls so far
\* monthEv: the last handler or callback run
VARIABLES
  selectedMonth, tasksData, monthLoading, monthLoads, monthSaves, monthRemote,
  monthActs, monthPuts, monthEv

mvars == <<selectedMonth, tasksData, monthLoading, monthLoads, monthSaves,
           monthRemote, monthActs, monthPuts, monthEv>>

ui == <<diary, tasks, loading, syncing, saving, loadFailed, hasUserEdited>>
jvars == <<quotaExceeded, selectedDate, isOpen, diary, tasks, loading, syncing,
           saving, loadFailed, hasUserEdited, localCache, remote, timers,
           loads, retries, saves, clock, trace, puts, applied, sinceEdit,
           sinceSched, lastEdit, lastSched, ev>>
vars == <<jvars, mvars>>

Min(a, b) == IF a <= b THEN a ELSE b
RemoveAt(s, i) == SubSeq(s, 1, i - 1) \o SubSeq(s, i + 1, Len(s))
SinceCap == DebounceMs + TickMs
Ev(type, key, out, flag) == [type |-> type, key |-> key, out |-> out, flag |-> flag]

\* history kept for the properties: the user's actions so far, the remote puts
\* initiated so far, the put last applied to each remote document, the
\* arguments of the last edit and of the last triggerSave call, and the time
\* elapsed since each
hist == <<trace, puts, applied, sinceEdit, sinceSched, lastEdit, lastSched>>
NoEdit == [key |-> 0, diary |-> "", tasks |-> <<>>]
NoSched == [key |-> 0, diary |-> "", tasks |-> <<>>, n |-> 0, fired |-> 0]

\* ------------------------------------------------------------ local cache
\* a stored string that JSON.parse rejects
Unparsable == <<[raw |-> "{"]>>
JsonParses(item) == "raw" \notin DOMAIN item[1]

\* faulty variant: unparsable content is taken for a stored blank record
loadFromLocalCacheNoCatch(cache, dateKey) ==
  LET cached == cache[dateKey]
  IN IF cached = Absent THEN Absent
     ELSE IF JsonParses(cached) THEN cached
     ELSE Present(Entry("", <<>>, 0))

\* getItem, then JSON.parse inside try/catch: null for a missing key and for
\* content that does not parse
loadFromLocalCache(cache, dateKey) ==
  LET cached == cache[dateKey]
  IN IF cached = Absent THEN Absent
     ELSE IF JsonParses(cached) THEN cached
     ELSE Absent

\* localStorage.setItem throws instead of storing
setItemThrows == quotaExceeded

\* faulty variant: the storage key leaves out the period
saveToLocalCacheShared(cache, dateKey, data) == [k \in Keys |-> Present(data)]

\* faulty variant: the write to localStorage is dropped
saveToLocalCacheSkip(cache, dateKey, data) == cache

saveToLocalCache(cache, dateKey, data) ==
  [cache EXCEPT ![dateKey] = Present(data)]

\* ------------------------------------------------------------------ timers
\* faulty variant: the pending timer is not cleared
clearTimeoutLeak(ts) == ts

clearTimeout(ts) == {t \in ts : ~t.ref}

triggerSave(ts, dateKey, newDiary, newTasks) ==
  {[t EXCEPT !.ref = FALSE] : t \in clearTimeout(ts)}
    \cup {[rem |-> DebounceMs, key |-> dateKey, diary |-> newDiary,
           tasks |-> newTasks, ref |-> TRUE]}

Pending(ts) == \E t \in ts : t.ref

Sched(dateKey, newDiary, newTasks) ==
  [key |-> dateKey, diary |-> newDiary, tasks |-> newTasks,
   n |-> IF Pending(timers) THEN lastSched.n + 1 ELSE 1, fired |-> 0]

\* faulty variant: an edit made while a flush is in flight is not scheduled
EditTailWhenIdle(newDiary, newTasks) ==
  /\ hasUserEdited' = TRUE
  /\ sinceEdit' = 0
  /\ lastEdit' = [key |-> selectedDate, diary |-> newDiary, tasks |-> newTasks]
  /\ trace' = Append(trace, IF loadFailed THEN "editLF" ELSE "edit")
  /\ IF ~loadFailed /\ ~saving
       THEN /\ timers' = triggerSave(timers, selectedDate, newDiary, newTasks)
            /\ lastSched' = Sched(selectedDate, newDiary, newTasks)
            /\ sinceSched' = 0
       ELSE UNCHANGED <<timers, lastSched, sinceSched>>
  /\ UNCHANGED <<mvars, quotaExceeded, selectedDate, isOpen, loading, syncing, saving, loadFailed,
                 localCache, remote, loads, retries, saves, clock, puts,
                 applied>>

\* an edit handler's common tail: setHasUserEdited, then the guarded schedule
EditTail(newDiary, newTasks) ==
  /\ hasUserEdited' = TRUE
  /\ sinceEdit' = 0
  /\ lastEdit' = [key |-> selectedDate, diary |-> newDiary, tasks |-> newTasks]
  /\ trace' = Append(trace, IF loadFailed THEN "editLF" ELSE "edit")
  /\ IF ~loadFailed
       THEN /\ timers' = triggerSave(timers, selectedDate, newDiary, newTasks)
            /\ lastSched' = Sched(selectedDate, newDiary, newTasks)
            /\ sinceSched' = 0
       ELSE UNCHANGED <<timers, lastSched, sinceSched>>
  /\ UNCHANGED <<mvars, quotaExceeded, selectedDate, isOpen, loading, syncing, saving, loadFailed,
                 localCache, remote, loads, retries, saves, clock, puts,
                 applied>>

CanAct == isOpen /\ Len(trace) < MaxActs

handleDiaryChange(newDiary) ==
  /\ CanAct
  /\ newDiary # diary
  /\ diary' = newDiary
  /\ tasks' = tasks
  /\ ev' = Ev("edit", selectedDate, "diary", loadFailed)
  /\ EditTail(newDiary, tasks)

\* Date.now() of a user action: one fresh value per action
NowId == Len(trace) + 1

addTask(newTaskText) ==
  /\ CanAct
  /\ newTaskText # ""
  /\ LET newTask == [id |-> NowId, text |-> newTaskText, completed |-> FALSE]
         newTasks == Append(tasks, newTask)
     IN /\ tasks' = newTasks
        /\ diary' = diary
        /\ ev' = Ev("edit", selectedDate, "add", loadFailed)
        /\ EditTail(diary, newTasks)

TaskIds(ts) == {ts[i].id : i \in 1..Len(ts)}

toggleTask(taskId) ==
  /\ CanAct
  /\ taskId \in TaskIds(tasks)
  /\ LET newTasks == [i \in 1..Len(tasks) |->
                       IF tasks[i].id = taskId
                         THEN [tasks[i] EXCEPT !.completed = ~tasks[i].completed]
                         ELSE tasks[i]]
     IN /\ tasks' = newTasks
        /\ diary' = diary
        /\ ev' = Ev("edit", selectedDate, "toggle", loadFailed)
        /\ EditTail(diary, newTasks)

deleteTask(taskId) ==
  /\ CanAct
  /\ taskId \in TaskIds(tasks)
  /\ LET newTasks == SelectSeq(tasks, LAMBDA t : t.id # taskId)
     IN /\ tasks' = newTasks
        /\ diary' = diary
        /\ ev' = Ev("edit", selectedDate, "delete", loadFailed)
        /\ EditTail(diary, newTasks)

\* the period that is today, and the work screen's task list in localStorage
Today == 1
WorkTasks == <<[text |-> "w", completed |-> FALSE]>>

\* the button is rendered for today only; the copied tasks get fresh ids and
\* the schedule is not guarded by loadFailed, hasUserEdited is not set
copyTasksFromWorkScreen ==
  /\ CanAct
  /\ selectedDate = Today
  /\ LET copiedTasks == [i \in 1..Len(WorkTasks) |->
                          [id |-> NowId, text |-> WorkTasks[i].text,
                           completed |-> WorkTasks[i].completed]]
         newTasks == tasks \o copiedTasks
     IN /\ tasks' = newTasks
        /\ timers' = triggerSave(timers, selectedDate, diary, newTasks)
        /\ lastSched' = Sched(selectedDate, diary, newTasks)
  /\ sinceSched' = 0
  /\ trace' = Append(trace, "copy")
  /\ ev' = Ev("copy", selectedDate, "", loadFailed)
  /\ UNCHANGED <<mvars, quotaExceeded, selectedDate, isOpen, diary, loading, syncing,
                 saving, loadFailed, hasUserEdited, localCache, remote, loads,
                 retries, saves, clock, puts, applied, sinceEdit, lastEdit>>

\* ------------------------------------------------------------ load effect
\* body of the effect on [isOpen, user, selectedDate] for period dateKey
LoadEffect(dateKey) ==
  LET cached == loadFromLocalCache(localCache, dateKey)
      hasCache == cached # Absent
  IN /\ diary' = IF hasCache THEN cached[1].diary ELSE ""
     /\ tasks' = IF hasCache THEN cached[1].tasks ELSE <<>>
     /\ loadFailed' = FALSE
     /\ hasUserEdited' = FALSE
     /\ loading' = FALSE
     /\ syncing' = TRUE
     /\ loads' = Append(loads, [key |-> dateKey, hasCache |-> hasCache,
                                loaded |-> FALSE, phase |-> "cache",
                                rem |-> TimeoutMs])

openModal ==
  /\ ~isOpen /\ Len(trace) < MaxActs
  /\ isOpen' = TRUE
  /\ LoadEffect(selectedDate)
  /\ trace' = Append(trace, "open")
  /\ ev' = Ev("open", selectedDate, "", FALSE)
  /\ UNCHANGED <<mvars, quotaExceeded, selectedDate, saving, localCache, remote, timers,
                 retries, saves, clock, puts, applied, sinceEdit, sinceSched,
                 lastEdit, lastSched>>

onClose ==
  /\ CanAct
  /\ isOpen' = FALSE
  /\ trace' = Append(trace, "close")
  /\ ev' = Ev("close", selectedDate, "", FALSE)
  /\ UNCHANGED <<mvars, quotaExceeded, selectedDate, ui, localCache, remote, timers, loads,
                 retries, saves, clock, puts, applied, sinceEdit, sinceSched,
                 lastEdit, lastSched>>

changeDate(days) ==
  /\ CanAct
  /\ selectedDate + days \in Keys
  /\ selectedDate' = selectedDate + days
  /\ LoadEffect(selectedDate + days)
  /\ trace' = Append(trace, "changeDate")
  /\ ev' = Ev("changeDate", selectedDate + days, "", FALSE)
  /\ UNCHANGED <<mvars, quotaExceeded, isOpen, saving, localCache, remote, timers,
                 retries, saves, clock, puts, applied, sinceEdit, sinceSched,
                 lastEdit, lastSched>>

\* ------------------------------------------------------------- loadJournal
\* getDocFromCache settles: a hit paints and caches the replica document; a
\* throwing setItem leaves the try block before loadedFromFirestore is set
cacheReadDone(i, snap) ==
  /\ i \in 1..Len(loads)
  /\ loads[i].phase = "cache"
  /\ LET l == loads[i]
         exists == snap # Absent
         stored == exists /\ ~setItemThrows
     IN /\ IF exists
             THEN diary' = snap[1].diary /\ tasks' = snap[1].tasks
             ELSE UNCHANGED <<diary, tasks>>
        /\ localCache' = IF stored
                            THEN saveToLocalCache(localCache, l.key, snap[1])
                            ELSE localCache
        /\ loading' = IF stored THEN FALSE ELSE loading
        /\ loads' = [loads EXCEPT ![i] = [l EXCEPT !.phase = "server",
                                                   !.loaded = stored,
                                                   !.rem = TimeoutMs]]
        /\ ev' = Ev("cacheDone", l.key, IF exists THEN "hit" ELSE "miss", l.hasCache)
  /\ UNCHANGED <<mvars, quotaExceeded, selectedDate, isOpen, syncing, saving, loadFailed,
                 hasUserEdited, remote, timers, retries, saves, clock, hist>>

\* faulty variant: the catch block never sets loadFailed
LoadCatchSilent(l) ==
  /\ loading' = FALSE
  /\ syncing' = FALSE
  /\ UNCHANGED <<loadFailed, diary, tasks, localCache>>

\* the catch and finally blocks of loadJournal
LoadCatch(l) ==
  /\ loadFailed' = IF ~l.hasCache /\ ~l.loaded THEN TRUE ELSE loadFailed
  /\ loading' = FALSE
  /\ syncing' = FALSE
  /\ UNCHANGED <<diary, tasks, localCache>>

\* faulty variant: an absent server document is handled like a failed read
serverReadDoneAbsentFails(i, out) ==
  /\ i \in 1..Len(loads)
  /\ loads[i].phase = "server"
  /\ LET l == loads[i]
         snap == remote[l.key]
         exists == snap # Absent
     IN /\ IF out = "ok" /\ exists
             THEN /\ diary' = snap[1].diary /\ tasks' = snap[1].tasks
                  /\ localCache' = saveToLocalCache(localCache, l.key, snap[1])
                  /\ loadFailed' = FALSE
                  /\ loading' = FALSE
                  /\ syncing' = FALSE
             ELSE LoadCatch(l)
        /\ loads' = RemoveAt(loads, i)
        /\ ev' = Ev("serverDone", l.key,
                    IF out = "ok" THEN (IF exists THEN "present" ELSE "absent") ELSE out,
                    l.hasCache \/ l.loaded)
  /\ UNCHANGED <<mvars, quotaExceeded, selectedDate, isOpen, saving, hasUserEdited,
                 remote, timers, retries, saves, clock, hist>>

\* getDocFromServer settles before the deadline fired
serverReadDone(i, out) ==
  /\ i \in 1..Len(loads)
  /\ loads[i].phase = "server"
  /\ LET l == loads[i]
         snap == remote[l.key]
         exists == snap # Absent
     IN /\ IF out = "ok"
             THEN /\ IF exists
                       THEN diary' = snap[1].diary /\ tasks' = snap[1].tasks
                       ELSE UNCHANGED <<diary, tasks>>
                  /\ IF exists /\ setItemThrows
                       THEN /\ localCache' = localCache
                            /\ loadFailed' = IF ~l.hasCache /\ ~l.loaded
                                               THEN TRUE ELSE loadFailed
                       ELSE /\ localCache' =
                                 IF exists
                                   THEN saveToLocalCache(localCache, l.key, snap[1])
                                   ELSE localCache
                            /\ loadFailed' = FALSE
                  /\ loading' = FALSE
                  /\ syncing' = FALSE
             ELSE LoadCatch(l)
        /\ loads' = RemoveAt(loads, i)
        /\ ev' = Ev("serverDone", l.key,
                    IF out = "ok" THEN (IF exists THEN "present" ELSE "absent") ELSE out,
                    l.hasCache \/ l.loaded)
  /\ UNCHANGED <<mvars, quotaExceeded, selectedDate, isOpen, saving, hasUserEdited, remote,
                 timers, retries, saves, clock, hist>>

\* faulty variant: the deadline's Error("Timeout") never sets loadFailed
loadTimeoutIgnored(i) ==
  /\ i \in 1..Len(loads)
  /\ loads[i].phase = "server"
  /\ loads[i].rem = 0
  /\ LoadCatchSilent(loads[i])
  /\ loads' = [loads EXCEPT ![i].phase = "late"]
  /\ ev' = Ev("loadTimeout", loads[i].key, "Timeout",
              loads[i].hasCache \/ loads[i].loaded)
  /\ UNCHANGED <<mvars, quotaExceeded, selectedDate, isOpen, saving, hasUserEdited,
                 remote, timers, retries, saves, clock, hist>>

\* the deadline of withTimeout fires first: Error("Timeout"); getDocFromServer
\* stays in flight
loadTimeout(i) ==
  /\ i \in 1..Len(loads)
  /\ loads[i].phase = "server"
  /\ loads[i].rem = 0
  /\ LoadCatch(loads[i])
  /\ loads' = [loads EXCEPT ![i].phase = "late"]
  /\ ev' = Ev("loadTimeout", loads[i].key, "Timeout",
              loads[i].hasCache \/ loads[i].loaded)
  /\ UNCHANGED <<mvars, quotaExceeded, selectedDate, isOpen, saving, hasUserEdited, remote,
                 timers, retries, saves, clock, hist>>

\* faulty variant: a read that lost the race is still handled when it settles
serverReadLatePaints(i, out) ==
  /\ i \in 1..Len(loads)
  /\ loads[i].phase = "late"
  /\ LET l == loads[i]
         snap == remote[l.key]
     IN /\ IF out = "ok" /\ snap # Absent
             THEN diary' = snap[1].diary /\ tasks' = snap[1].tasks
             ELSE UNCHANGED <<diary, tasks>>
        /\ loadFailed' = (out # "ok")
        /\ ev' = Ev("lateRead", l.key, out, l.hasCache \/ l.loaded)
  /\ loads' = RemoveAt(loads, i)
  /\ UNCHANGED <<mvars, quotaExceeded, selectedDate, isOpen, loading, syncing, saving,
                 hasUserEdited, localCache, remote, timers, retries, saves,
                 clock, hist>>

\* getDocFromServer settles after the deadline won the race: Promise.race has
\* settled already and nothing listens to the result
serverReadLate(i, out) ==
  /\ i \in 1..Len(loads)
  /\ loads[i].phase = "late"
  /\ loads' = RemoveAt(loads, i)
  /\ ev' = Ev("lateRead", loads[i].key, out, loads[i].hasCache \/ loads[i].loaded)
  /\ UNCHANGED <<mvars, quotaExceeded, selectedDate, isOpen, ui, localCache, remote,
                 timers, retries, saves, clock, hist>>

\* ------------------------------------------------------- retry / forceSave
\* faulty variant: retry runs the whole two-stage load again
retryLoadWithReplica ==
  /\ CanAct
  /\ loadFailed /\ ~syncing
  /\ loadFailed' = FALSE
  /\ syncing' = TRUE
  /\ loads' = Append(loads, [key |-> selectedDate, hasCache |-> FALSE,
                             loaded |-> FALSE, phase |-> "cache",
                             rem |-> TimeoutMs])
  /\ trace' = Append(trace, "retry")
  /\ ev' = Ev("retry", selectedDate, "", FALSE)
  /\ UNCHANGED <<mvars, quotaExceeded, selectedDate, isOpen, diary, tasks, loading,
                 saving, hasUserEdited, localCache, remote, timers, retries,
                 saves, clock, puts, applied, sinceEdit, sinceSched, lastEdit,
                 lastSched>>

retryLoad ==
  /\ CanAct
  /\ loadFailed /\ ~syncing
  /\ loadFailed' = FALSE
  /\ syncing' = TRUE
  /\ retries' = Append(retries, selectedDate)
  /\ trace' = Append(trace, "retry")
  /\ ev' = Ev("retry", selectedDate, "", FALSE)
  /\ UNCHANGED <<mvars, quotaExceeded, selectedDate, isOpen, diary, tasks, loading, saving,
                 hasUserEdited, localCache, remote, timers, loads, saves,
                 clock, puts, applied, sinceEdit, sinceSched, lastEdit,
                 lastSched>>

retryDone(i, out) ==
  /\ i \in 1..Len(retries)
  /\ LET dateKey == retries[i]
         snap == remote[dateKey]
         exists == snap # Absent
     IN /\ IF out = "ok" /\ exists
             THEN diary' = snap[1].diary /\ tasks' = snap[1].tasks
             ELSE UNCHANGED <<diary, tasks>>
        /\ localCache' = IF out = "ok" /\ exists /\ ~setItemThrows
                            THEN saveToLocalCache(localCache, dateKey, snap[1])
                            ELSE localCache
        /\ loadFailed' = (out # "ok" \/ (exists /\ setItemThrows))
        /\ syncing' = FALSE
        /\ ev' = Ev("retryDone", dateKey,
                    IF out = "ok" THEN (IF exists THEN "present" ELSE "absent") ELSE out,
                    FALSE)
  /\ retries' = RemoveAt(retries, i)
  /\ UNCHANGED <<mvars, quotaExceeded, selectedDate, isOpen, loading, saving, hasUserEdited,
                 remote, timers, loads, saves, clock, hist>>

\* faulty variant: forceSave clears the flag but schedules nothing
forceSaveGuarded ==
  /\ CanAct
  /\ loadFailed /\ hasUserEdited
  /\ loadFailed' = FALSE
  /\ trace' = Append(trace, "forceSave")
  /\ ev' = Ev("forceSave", selectedDate, "", FALSE)
  /\ UNCHANGED <<mvars, quotaExceeded, selectedDate, isOpen, diary, tasks, loading, syncing,
                 saving, hasUserEdited, localCache, remote, timers, loads,
                 retries, saves, clock, puts, applied, sinceEdit, sinceSched,
                 lastEdit, lastSched>>

forceSave ==
  /\ CanAct
  /\ loadFailed /\ hasUserEdited
  /\ loadFailed' = FALSE
  /\ timers' = triggerSave(timers, selectedDate, diary, tasks)
  /\ lastSched' = Sched(selectedDate, diary, tasks)
  /\ sinceSched' = 0
  /\ trace' = Append(trace, "forceSave")
  /\ ev' = Ev("forceSave", selectedDate, "", FALSE)
  /\ UNCHANGED <<mvars, quotaExceeded, selectedDate, isOpen, diary, tasks, loading, syncing,
                 saving, hasUserEdited, localCache, remote, loads, retries,
                 saves, clock, puts, applied, sinceEdit, lastEdit>>

\* -------------------------------------------------------------- saveJournal
\* faulty variant: saveJournal takes the period selected when the timer fires
timerFireCurrentKey(t) ==
  /\ t \in timers
  /\ t.rem = 0
  /\ LET journalData == Entry(t.diary, t.tasks, clock + 1)
     IN IF setItemThrows
          THEN /\ UNCHANGED <<localCache, saves, puts, saving>>
               /\ ev' = Ev("fire", selectedDate, "QuotaExceededError", t.ref)
          ELSE /\ localCache' = saveToLocalCache(localCache, selectedDate, journalData)
               /\ saves' = Append(saves, [key |-> selectedDate, data |-> journalData,
                                          rem |-> TimeoutMs, waiting |-> TRUE,
                                          seq |-> Len(puts) + 1])
               /\ puts' = Append(puts, [key |-> selectedDate, data |-> journalData])
               /\ saving' = TRUE
               /\ ev' = Ev("fire", selectedDate, "", t.ref)
  /\ clock' = clock + 1
  /\ timers' = timers \ {t}
  /\ lastSched' = [lastSched EXCEPT !.fired = lastSched.fired + 1]
  /\ UNCHANGED <<mvars, quotaExceeded, selectedDate, isOpen, diary, tasks, loading,
                 syncing, loadFailed, hasUserEdited, remote, loads, retries,
                 trace, applied, sinceEdit, sinceSched, lastEdit>>

\* faulty variant: setDoc is initiated before the write to localStorage
timerFireRemoteFirst(t) ==
  /\ t \in timers
  /\ t.rem = 0
  /\ LET journalData == Entry(t.diary, t.tasks, clock + 1)
     IN /\ saves' = Append(saves, [key |-> t.key, data |-> journalData,
                                   rem |-> TimeoutMs, waiting |-> TRUE,
                                   seq |-> Len(puts) + 1])
        /\ puts' = Append(puts, [key |-> t.key, data |-> journalData])
        /\ saving' = TRUE
        /\ localCache' = IF setItemThrows
                            THEN localCache
                            ELSE saveToLocalCache(localCache, t.key, journalData)
        /\ ev' = Ev("fire", t.key, IF setItemThrows THEN "QuotaExceededError" ELSE "",
                    t.ref)
  /\ clock' = clock + 1
  /\ timers' = timers \ {t}
  /\ lastSched' = [lastSched EXCEPT !.fired = lastSched.fired + 1]
  /\ UNCHANGED <<mvars, quotaExceeded, selectedDate, isOpen, diary, tasks, loading,
                 syncing, loadFailed, hasUserEdited, remote, loads, retries,
                 trace, applied, sinceEdit, sinceSched, lastEdit>>

\* the debounce timer fires and runs saveJournal up to its await; a throwing
\* setItem at the first statement ends saveJournal before setSaving and setDoc
timerFire(t) ==
  /\ t \in timers
  /\ t.rem = 0
  /\ LET journalData == Entry(t.diary, t.tasks, clock + 1)
     IN IF setItemThrows
          THEN /\ UNCHANGED <<localCache, saves, puts, saving>>
               /\ ev' = Ev("fire", t.key, "QuotaExceededError", t.ref)
          ELSE /\ localCache' = saveToLocalCache(localCache, t.key, journalData)
               /\ saves' = Append(saves, [key |-> t.key, data |-> journalData,
                                          rem |-> TimeoutMs, waiting |-> TRUE,
                                          seq |-> Len(puts) + 1])
               /\ puts' = Append(puts, [key |-> t.key, data |-> journalData])
               /\ saving' = TRUE
               /\ ev' = Ev("fire", t.key, "", t.ref)
  /\ clock' = clock + 1
  /\ timers' = timers \ {t}
  /\ lastSched' = [lastSched EXCEPT !.fired = lastSched.fired + 1]
  /\ UNCHANGED <<mvars, quotaExceeded, selectedDate, isOpen, diary, tasks, loading, syncing,
                 loadFailed, hasUserEdited, remote, loads, retries, trace,
                 applied, sinceEdit, sinceSched, lastEdit>>

\* faulty variant: the write keeps the tasks of the document it overwrites
saveDoneMerge(i, out) ==
  /\ i \in 1..Len(saves)
  /\ LET sv == saves[i]
         old == remote[sv.key]
     IN /\ remote' = IF out = "ok"
                        THEN [remote EXCEPT ![sv.key] =
                                IF old = Absent THEN Present(sv.data)
                                ELSE Present([sv.data EXCEPT !.tasks = old[1].tasks])]
                        ELSE remote
        /\ applied' = IF out = "ok"
                         THEN [applied EXCEPT ![sv.key] = sv.seq]
                         ELSE applied
        /\ saving' = IF sv.waiting THEN FALSE ELSE saving
        /\ ev' = Ev("saveDone", sv.key, out, sv.waiting)
  /\ saves' = RemoveAt(saves, i)
  /\ UNCHANGED <<mvars, quotaExceeded, selectedDate, isOpen, diary, tasks, loading, syncing,
                 loadFailed, hasUserEdited, localCache, timers, loads, retries,
                 clock, trace, puts, sinceEdit, sinceSched, lastEdit,
                 lastSched>>

\* setDoc settles; a write that outlived its deadline settles in the background
saveDone(i, out) ==
  /\ i \in 1..Len(saves)
  /\ LET sv == saves[i]
     IN /\ remote' = IF out = "ok"
                        THEN [remote EXCEPT ![sv.key] = Present(sv.data)]
                        ELSE remote
        /\ applied' = IF out = "ok"
                         THEN [applied EXCEPT ![sv.key] = sv.seq]
                         ELSE applied
        /\ saving' = IF sv.waiting THEN FALSE ELSE saving
        /\ ev' = Ev("saveDone", sv.key, out, sv.waiting)
  /\ saves' = RemoveAt(saves, i)
  /\ UNCHANGED <<mvars, quotaExceeded, selectedDate, isOpen, diary, tasks, loading, syncing,
                 loadFailed, hasUserEdited, localCache, timers, loads, retries,
                 clock, trace, puts, sinceEdit, sinceSched, lastEdit,
                 lastSched>>

\* the deadline of withTimeout fires first: the catch and finally of saveJournal
saveTimeout(i) ==
  /\ i \in 1..Len(saves)
  /\ saves[i].waiting
  /\ saves[i].rem = 0
  /\ saving' = FALSE
  /\ saves' = [saves EXCEPT ![i].waiting = FALSE]
  /\ ev' = Ev("saveTimeout", saves[i].key, "Timeout", TRUE)
  /\ UNCHANGED <<mvars, quotaExceeded, selectedDate, isOpen, diary, tasks, loading, syncing,
                 loadFailed, hasUserEdited, localCache, remote, timers, loads,
                 retries, clock, hist>>

\* --------------------------------------------------------------------- time
\* remaining times of the armed timers: debounce, load deadline, save deadline
Armed ==
  {t.rem : t \in timers}
    \cup {loads[i].rem : i \in {j \in 1..Len(loads) : loads[j].phase = "server"}}
    \cup {saves[i].rem : i \in {j \in 1..Len(saves) : saves[j].waiting}}

\* time advances by TickMs, but never past the next timer that is due
Step == CHOOSE x \in Armed \cup {TickMs} : \A y \in Armed \cup {TickMs} : x <= y

tick ==
  /\ 0 \notin Armed
  /\ Armed # {} \/ sinceEdit < SinceCap \/ sinceSched < SinceCap
  /\ LET d == Step
     IN /\ timers' = {[t EXCEPT !.rem = t.rem - d] : t \in timers}
        /\ loads' = [i \in 1..Len(loads) |->
                       IF loads[i].phase = "server"
                         THEN [loads[i] EXCEPT !.rem = loads[i].rem - d]
                         ELSE loads[i]]
        /\ saves' = [i \in 1..Len(saves) |->
                       IF saves[i].waiting
                         THEN [saves[i] EXCEPT !.rem = saves[i].rem - d]
                         ELSE saves[i]]
        /\ sinceEdit' = Min(sinceEdit + d, SinceCap)
        /\ sinceSched' = Min(sinceSched + d, SinceCap)
  /\ ev' = Ev("tick", 0, "", FALSE)
  /\ UNCHANGED <<mvars, quotaExceeded, selectedDate, isOpen, ui, localCache, remote, retries, clock,
                 trace, puts, applied, lastEdit, lastSched>>

\* ----------------------------------------------------------- MonthlyTasks
NumMonths == 2
MaxMonthActs == 3
MaxTarget == 2

Months == 1..NumMonths
\* a task; month records the month under which it was loaded or added
MonthlyTask(id, target, completed, m) ==
  [id |-> id, targetCount |-> target, completedCount |-> completed, month |-> m]
MonthlyTasksData(ts, u) == [tasks |-> ts, updatedAt |-> u]
\* the document each month holds before the session: one task, half done
MonthSeed(m) == MonthlyTasksData(<<MonthlyTask(0 - m, MaxTarget, 1, m)>>, 0)
MonthReadOutcomes == {"ok", "error"}
MonthWriteOutcomes == {"ok", "error"}
MonthEv(type, id) == [type |-> type, id |-> id]

\* the effect on [user, monthKey]: setLoading(true), then getDoc
loadTasks(monthKey) ==
  /\ monthLoading' = TRUE
  /\ monthLoads' = Append(monthLoads, monthKey)

\* the parent passes another selectedMonth
changeMonth(days) ==
  /\ monthActs < MaxMonthActs
  /\ selectedMonth + days \in Months
  /\ selectedMonth' = selectedMonth + days
  /\ loadTasks(selectedMonth + days)
  /\ monthActs' = monthActs + 1
  /\ monthEv' = MonthEv("changeMonth", 0)
  /\ UNCHANGED <<jvars, tasksData, monthSaves, monthRemote, monthPuts>>

\* getDoc settles: the try, catch and finally blocks of loadTasks
loadTasksDone(i, out) ==
  /\ i \in 1..Len(monthLoads)
  /\ LET monthKey == monthLoads[i]
         docSnap == monthRemote[monthKey]
     IN tasksData' =
          IF out = "ok"
            THEN IF docSnap # Absent THEN docSnap[1]
                 ELSE MonthlyTasksData(<<>>, monthActs)
            ELSE tasksData
  /\ monthLoading' = FALSE
  /\ monthLoads' = RemoveAt(monthLoads, i)
  /\ monthEv' = MonthEv(IF out = "ok" THEN "loaded" ELSE "loadError", 0)
  /\ UNCHANGED <<jvars, selectedMonth, monthSaves, monthRemote, monthActs,
                 monthPuts>>

\* saveTasks: setDoc under the month key of the current render
saveTasks(newData) ==
  /\ monthSaves' = Append(monthSaves, [key |-> selectedMonth, data |-> newData])
  /\ monthPuts' = Append(monthPuts, [key |-> selectedMonth, data |-> newData])

\* a handler's common tail: setTasksData(newData); saveTasks(newData)
MonthEditTail(newTasks, type, id) ==
  LET newData == MonthlyTasksData(newTasks, monthActs + 1)
  IN /\ tasksData' = newData
     /\ saveTasks(newData)
     /\ monthActs' = monthActs + 1
     /\ monthEv' = MonthEv(type, id)
     /\ UNCHANGED <<jvars, selectedMonth, monthLoading, monthLoads, monthRemote>>

\* the list and its buttons are rendered only while loading is false
MonthCanAct == ~monthLoading /\ monthActs < MaxMonthActs

MonthTaskIds == {tasksData.tasks[i].id : i \in 1..Len(tasksData.tasks)}

MonthlyAddTask(newTaskCount) ==
  /\ MonthCanAct
  /\ newTaskCount >= 1
  /\ LET newTask == MonthlyTask(monthActs + 1, newTaskCount, 0, selectedMonth)
     IN MonthEditTail(Append(tasksData.tasks, newTask), "add", monthActs + 1)

\* faulty variant: the count is raised without a look at the target
incrementCompletedUnbounded(taskId) ==
  /\ MonthCanAct
  /\ taskId \in MonthTaskIds
  /\ LET newTasks == [i \in 1..Len(tasksData.tasks) |->
                       LET task == tasksData.tasks[i]
                       IN IF task.id = taskId
                            THEN [task EXCEPT !.completedCount = @ + 1]
                            ELSE task]
     IN MonthEditTail(newTasks, "increment", taskId)

incrementCompleted(taskId) ==
  /\ MonthCanAct
  /\ taskId \in MonthTaskIds
  /\ LET newTasks == [i \in 1..Len(tasksData.tasks) |->
                       LET task == tasksData.tasks[i]
                       IN IF task.id = taskId /\ task.completedCount < task.targetCount
                            THEN [task EXCEPT !.completedCount = @ + 1]
                            ELSE task]
     IN MonthEditTail(newTasks, "increment", taskId)

decrementCompleted(taskId) ==
  /\ MonthCanAct
  /\ taskId \in MonthTaskIds
  /\ LET newTasks == [i \in 1..Len(tasksData.tasks) |->
                       LET task == tasksData.tasks[i]
                       IN IF task.id = taskId /\ task.completedCount > 0
                            THEN [task EXCEPT !.completedCount = @ - 1]
                            ELSE task]
     IN MonthEditTail(newTasks, "decrement", taskId)

MonthlyDeleteTask(taskId) ==
  /\ MonthCanAct
  /\ taskId \in MonthTaskIds
  /\ MonthEditTail(SelectSeq(tasksData.tasks, LAMBDA task : task.id # taskId),
                   "delete", taskId)

\* setDoc settles
saveTasksDone(i, out) ==
  /\ i \in 1..Len(monthSaves)
  /\ monthRemote' = IF out = "ok"
                      THEN [monthRemote EXCEPT ![monthSaves[i].key] =
                              Present(monthSaves[i].data)]
                      ELSE monthRemote
  /\ monthSaves' = RemoveAt(monthSaves, i)
  /\ monthEv' = MonthEv("saved", 0)
  /\ UNCHANGED <<jvars, selectedMonth, tasksData, monthLoading, monthLoads,
                 monthActs, monthPuts>>

\* MonthlyTasks after mount: loading is true and the first load is in flight
MonthlyMounted ==
  /\ selectedMonth = 1
  /\ tasksData = MonthlyTasksData(<<>>, 0)
  /\ monthLoading = TRUE
  /\ monthLoads = <<1>>
  /\ monthSaves = <<>>
  /\ monthRemote = [m \in Months |-> Present(MonthSeed(m))]
  /\ monthActs = 0
  /\ monthPuts = <<>>
  /\ monthEv = MonthEv("mount", 0)

MonthlyNext ==
  \/ \E days \in {-1, 1} : changeMonth(days)
  \/ \E i \in 1..Len(monthLoads) : \E out \in MonthReadOutcomes : loadTasksDone(i, out)
  \/ \E n \in 1..MaxTarget : MonthlyAddTask(n)
  \/ \E id \in MonthTaskIds : incrementCompleted(id)
  \/ \E id \in MonthTaskIds : decrementCompleted(id)
  \/ \E id \in MonthTaskIds : MonthlyDeleteTask(id)
  \/ \E i \in 1..Len(monthSaves) : \E out \in MonthWriteOutcomes : saveTasksDone(i, out)

\* ------------------------------------------------------------ specification
\* today's entries may or may not exist; the other periods start empty locally
Stores == {[k \in Keys |-> IF k = 1 THEN x ELSE Absent] :
             x \in {Absent, Present(LocalSeed)}}
Servers == {[k \in Keys |-> IF k = 1 THEN x ELSE Present(ServerSeed)] :
              x \in {Absent, Present(ServerSeed)}}
ReadOutcomes == {"ok", "offline", "error"}
WriteOutcomes == {"ok", "error"}

\* the state after construction, the storage quota being used up or not
InitWith(full, stores) ==
  /\ MonthlyMounted
  /\ quotaExceeded = full
  /\ selectedDate = 1
  /\ isOpen = FALSE
  /\ diary = ""
  /\ tasks = <<>>
  /\ loading = FALSE
  /\ syncing = FALSE
  /\ saving = FALSE
  /\ loadFailed = FALSE
  /\ hasUserEdited = FALSE
  /\ localCache \in stores
  /\ remote \in Servers
  /\ timers = {}
  /\ loads = <<>>
  /\ retries = <<>>
  /\ saves = <<>>
  /\ clock = 0
  /\ trace = <<>>
  /\ puts = <<>>
  /\ applied = [k \in Keys |-> 0]
  /\ sinceEdit = SinceCap
  /\ sinceSched = SinceCap
  /\ lastEdit = NoEdit
  /\ lastSched = NoSched
  /\ ev = Ev("init", 0, "", FALSE)

InitStore(full) == InitWith(full, Stores)

Init == InitStore(FALSE)

Next ==
  \/ \E d \in Diaries : handleDiaryChange(d)
  \/ \E x \in Texts : addTask(x)
  \/ \E id \in TaskIds(tasks) : toggleTask(id)
  \/ \E id \in TaskIds(tasks) : deleteTask(id)
  \/ copyTasksFromWorkScreen
  \/ openModal
  \/ onClose
  \/ \E days \in {-1, 1} : changeDate(days)
  \/ \E i \in 1..Len(loads) : \E snap \in {Absent, Present(ReplicaSeed)} :
        cacheReadDone(i, snap)
  \/ \E i \in 1..Len(loads) : \E out \in ReadOutcomes : serverReadDone(i, out)
  \/ \E i \in 1..Len(loads) : loadTimeout(i)
  \/ \E i \in 1..Len(loads) : \E out \in ReadOutcomes : serverReadLate(i, out)
  \/ retryLoad
  \/ \E i \in 1..Len(retries) : \E out \in ReadOutcomes : retryDone(i, out)
  \/ forceSave
  \/ \E t \in timers : timerFire(t)
  \/ \E i \in 1..Len(saves) : \E out \in WriteOutcomes : saveDone(i, out)
  \/ \E i \in 1..Len(saves) : saveTimeout(i)
  \/ tick

Spec == Init /\ [][Next]_vars

\* what the event loop guarantees: time passes, due timers run, and the read
\* of the client-side replica returns; the network owes nothing
Fairness ==
  /\ WF_vars(tick)
  /\ WF_vars(\E t \in timers : timerFire(t))
  /\ WF_vars(\E i \in 1..Len(loads) : loadTimeout(i))
  /\ WF_vars(\E i \in 1..Len(saves) : saveTimeout(i))
  /\ WF_vars(\E i \in 1..Len(loads) : \E snap \in {Absent, Present(ReplicaSeed)} :
               cacheReadDone(i, snap))

FairSpec == Spec /\ Fairness

\* the view already open on period 1 with its first load settled: the server
\* document was read, painted and cached, nothing is in flight
OpenedInit ==
  /\ MonthlyMounted
  /\ quotaExceeded = FALSE
  /\ selectedDate = 1
  /\ isOpen = TRUE
  /\ diary = ServerSeed.diary
  /\ tasks = ServerSeed.tasks
  /\ loading = FALSE
  /\ syncing = FALSE
  /\ saving = FALSE
  /\ loadFailed = FALSE
  /\ hasUserEdited = FALSE
  /\ localCache = [k \in Keys |-> IF k = 1 THEN Present(ServerSeed) ELSE Absent]
  /\ remote = [k \in Keys |-> Present(ServerSeed)]
  /\ timers = {}
  /\ loads = <<>>
  /\ retries = <<>>
  /\ saves = <<>>
  /\ clock = 0
  /\ trace = <<>>
  /\ puts = <<>>
  /\ applied = [k \in Keys |-> 0]
  /\ sinceEdit = SinceCap
  /\ sinceSched = SinceCap
  /\ lastEdit = NoEdit
  /\ lastSched = NoSched
  /\ ev = Ev("init", 0, "", FALSE)

OpenedSpec == OpenedInit /\ [][Next]_vars

\* the same program started with unparsable content in every localStorage entry
StoresMalformed == {[k \in Keys |-> Unparsable]}

MalformedInit == InitWith(FALSE, StoresMalformed)

MalformedSpec == MalformedInit /\ [][Next]_vars

\* the MonthlyTasks component alone, the journal view staying closed
MonthlyInit ==
  /\ Init
  /\ localCache = [k \in Keys |-> Absent]
  /\ remote = [k \in Keys |-> Present(ServerSeed)]

MonthlySpec == MonthlyInit /\ [][MonthlyNext]_vars

\* the same program started with localStorage either writable or full
QuotaInit == \E full \in BOOLEAN : InitStore(full)

QuotaSpec == QuotaInit /\ [][Next]_vars

\* ------------------------------------------------------------- properties
SameRecord(r, k, d, t) == r.key = k /\ r.diary = d /\ r.tasks = t
PutIs(p, k, d, t) == p.key = k /\ p.data.diary = d /\ p.data.tasks = t
LastPut(k) ==
  LET is == {i \in 1..Len(puts) : puts[i].key = k}
  IN IF is = {} THEN 0 ELSE CHOOSE i \in is : \A j \in is : j <= i
AllFlushesDone == timers = {} /\ saves = <<>>

\* C1 (P1 local durability): right after an edit handler returns, the local
\* cache entry of the edited key holds exactly the record of that edit.
C1_LocalDurability ==
  ev.type = "edit" =>
    /\ localCache[lastEdit.key] # Absent
    /\ localCache[lastEdit.key][1].diary = lastEdit.diary
    /\ localCache[lastEdit.key][1].tasks = lastEdit.tasks

\* C2 as claimed (P2 debounce coalescing over every edit): at most one timer
\* is armed, and every flush is the first since the last edit, happens 1000 ms
\* after the last edit and carries the record of that last edit.
C2_CoalescingEveryEdit ==
  /\ Cardinality(timers) <= 1
  /\ ev.type = "fire" =>
       /\ sinceEdit = DebounceMs
       /\ lastSched.fired = 1
       /\ PutIs(puts[Len(puts)], lastEdit.key, lastEdit.diary, lastEdit.tasks)

\* C2 as amended: at most one timer is armed, and every flush is the first
\* since the last triggerSave call (an edit made while loadFailed is not set,
\* or forceSave), happens 1000 ms after that call and carries its record.
C2_Coalescing ==
  /\ Cardinality(timers) <= 1
  /\ ev.type = "fire" =>
       /\ sinceSched = DebounceMs
       /\ lastSched.fired = 1
       /\ PutIs(puts[Len(puts)], lastSched.key, lastSched.diary, lastSched.tasks)

\* C2 witness: a burst of at least two schedules was coalesced into one flush
C2_Witness ==
  ev.type = "fire" /\ lastSched.n >= 2 /\ lastSched.fired = 1 /\ Len(puts) = 1

\* C3 (P3 deadline race): when the deadline fires before the server read, the
\* load settles at once: syncing is cleared, the painted record is kept, and
\* the state is Synced (not LoadFailed) if the load had a cache hit; time
\* never advances past the deadline of a load that is still waiting.
C3_DeadlineRace ==
  [][/\ ev'.type = "loadTimeout" =>
          /\ ~syncing'
          /\ diary' = diary /\ tasks' = tasks
          /\ ev'.flag => ~loadFailed'
     /\ ev'.type = "tick" =>
          \A i \in 1..Len(loads) : loads[i].phase = "server" => loads[i].rem > 0]_vars

\* C4 (P4 server supersedes earlier paints): when the server read of a load
\* that already painted a cached record resolves with a present document, the
\* display and the local cache entry of that key hold the server's record and
\* the state is Synced.
C4_ServerSupersedes ==
  (ev.type = "serverDone" /\ ev.out = "present" /\ ev.flag) =>
    /\ diary = remote[ev.key][1].diary
    /\ tasks = remote[ev.key][1].tasks
    /\ localCache[ev.key] = remote[ev.key]
    /\ ~syncing /\ ~loadFailed

\* C4 witness: the first load painted the local or replica record, then the
\* server's different record replaced it
C4_Witness ==
  /\ ev.type = "serverDone" /\ ev.out = "present" /\ ev.flag
  /\ trace = <<"open">>
  /\ diary = ServerSeed.diary
  /\ localCache[ev.key] = Present(ServerSeed)

\* C5 (P5): no local cache entry, cache-replica miss and a failed server read
\* end the load in LoadFailed: loadFailed set, syncing cleared.
C5_NoCacheNoServer ==
  (ev.type = "serverDone" /\ ev.out \in {"offline", "error"} /\ ~ev.flag) =>
    loadFailed /\ ~syncing

\* C5 witness: the first load of a key without local cache failed both reads
C5_Witness ==
  /\ ev.type = "serverDone" /\ ev.out = "error" /\ ~ev.flag
  /\ trace = <<"open">> /\ localCache[ev.key] = Absent /\ loadFailed

\* C6 (P6 force-save bypass): after open, an edit made in LoadFailed and
\* forceSave, with no further user action, at most one put is ever initiated,
\* it is for the edited key and carries the edited record, and until it is
\* initiated the timer that will initiate it is armed.
C6_ForceSaveBypass ==
  trace = <<"open", "editLF", "forceSave">> =>
    /\ Len(puts) <= 1
    /\ \A i \in 1..Len(puts) :
         PutIs(puts[i], selectedDate, lastEdit.diary, lastEdit.tasks)
    /\ puts = <<>> =>
         \E t \in timers :
           t.ref /\ SameRecord(t, selectedDate, lastEdit.diary, lastEdit.tasks)
    /\ puts # <<>> => timers = {}

\* C6 witness: the forced put was initiated
C6_Witness ==
  /\ trace = <<"open", "editLF", "forceSave">>
  /\ Len(puts) = 1 /\ ev.type = "fire"

\* C7: the last edit the UI accepted is never left without a local write:
\* either a flush of exactly that record has happened or a timer that will
\* flush it is armed.
C7_EditNeverLost ==
  lastEdit # NoEdit =>
    \/ \E t \in timers : SameRecord(t, lastEdit.key, lastEdit.diary, lastEdit.tasks)
    \/ \E i \in 1..Len(puts) :
         PutIs(puts[i], lastEdit.key, lastEdit.diary, lastEdit.tasks)

\* C8 as claimed: in every sync state an edit updates the displayed record and
\* arms the debounce timer with that record.
C8_EditAlwaysSchedules ==
  ev.type = "edit" =>
    /\ diary = lastEdit.diary /\ tasks = lastEdit.tasks
    /\ \E t \in timers :
         /\ t.ref /\ t.rem = DebounceMs
         /\ SameRecord(t, selectedDate, diary, tasks)

\* C8 as amended: in every sync state an edit updates the displayed record
\* and marks the record as edited; it arms the debounce timer with that
\* record in every state in which loadFailed is not set.
C8_EditAccepted ==
  ev.type = "edit" =>
    /\ diary = lastEdit.diary /\ tasks = lastEdit.tasks
    /\ hasUserEdited
    /\ ~loadFailed =>
         \E t \in timers :
           /\ t.ref /\ t.rem = DebounceMs
           /\ SameRecord(t, selectedDate, diary, tasks)

\* C8 witness: an edit made while a flush was in flight and a load running
C8_Witness ==
  ev.type = "edit" /\ saving /\ syncing /\ Pending(timers)

\* C9 as claimed (eventual last-write-wins): once no timer is armed and no
\* remote write is in flight, the remote document of every flushed key holds
\* the record of the last flush for that key.
C9_LastWriteWins ==
  \A k \in Keys :
    (AllFlushesDone /\ LastPut(k) # 0) =>
      remote[k] = Present(puts[LastPut(k)].data)

\* C9 as amended: the remote document always holds one whole snapshot: its
\* content from before the session, or the record of the flush whose write
\* was applied last; so it holds the last-scheduled record exactly when that
\* flush's write succeeded and was applied after the others.
C9_WholeSnapshot ==
  \A k \in Keys :
    /\ applied[k] = 0 => remote[k] \in {Absent, Present(ServerSeed)}
    /\ applied[k] # 0 =>
         /\ puts[applied[k]].key = k
         /\ remote[k] = Present(puts[applied[k]].data)

\* C9 witness: two flushes overlapped, the second outlived its deadline and
\* was applied last in the background
C9_Witness ==
  /\ AllFlushesDone /\ Len(puts) = 2
  /\ ev.type = "saveDone" /\ ~ev.flag /\ ev.out = "ok"
  /\ applied[ev.key] = 2 /\ puts[1].key = puts[2].key

\* C10: every Syncing episode and every Saving episode ends without any
\* answer from the remote store.
C10_NeverBlocks == (syncing ~> ~syncing) /\ (saving ~> ~saving)

\* C10, finite form: while syncing is set a load with a client-side deadline
\* is in flight, and while saving is set a write with a deadline is awaited.
C10_DeadlineArmed ==
  /\ syncing => Len(loads) > 0
  /\ saving => \E i \in 1..Len(saves) : saves[i].waiting

\* C11: a throwing localStorage write never fails the surrounding operation:
\* a flush still initiates its remote write, a cache-replica hit still counts
\* as loaded, and a present server document never ends a load or a retry in
\* LoadFailed.
C11_LocalWriteFailureAbsorbed ==
  /\ ev.type = "fire" =>
       \E i \in 1..Len(saves) :
         saves[i].seq = Len(puts) /\ saves[i].key = ev.key /\ saves[i].waiting
  /\ (ev.type = "cacheDone" /\ ev.out = "hit") =>
       \E i \in 1..Len(loads) :
         loads[i].key = ev.key /\ loads[i].phase = "server" /\ loads[i].loaded
  /\ (ev.type \in {"serverDone", "retryDone"} /\ ev.out = "present") =>
       ~loadFailed

\* a load's server read ended in the catch block: any error or the deadline
LoadErrored(e) ==
  e.type \in {"serverDone", "loadTimeout"} /\ e.out \in {"error", "offline", "Timeout"}

C13_HitThenFailureIsSynced ==
  [][(LoadErrored(ev') /\ ev'.flag) =>
       /\ ~loadFailed' /\ ~syncing'
       /\ diary' = diary /\ tasks' = tasks]_vars

\* C14: a server read that resolves within the deadline ends the load in
\* Synced whether the document is present or absent; with an absent document
\* and no cache hit the completion leaves the displayed record and the local
\* cache as they were (blank and absent on a first load) and loadFailed false.
C14_ResolvedIsSynced ==
  [][(ev'.type = "serverDone" /\ ev'.out \in {"present", "absent"}) =>
       /\ ~syncing' /\ ~loadFailed'
       /\ (ev'.out = "absent" /\ ~ev'.flag) =>
            /\ diary' = diary /\ tasks' = tasks
            /\ localCache' = localCache
            /\ trace = <<"open">> =>
                 /\ diary' = "" /\ tasks' = <<>>
                 /\ localCache'[ev'.key] = Absent]_vars

\* C14 witness: the first load found nothing locally, in the replica or on the
\* server, and ended Synced with a blank record
C14_Witness ==
  /\ ev.type = "serverDone" /\ ev.out = "absent" /\ ~ev.flag
  /\ trace = <<"open">> /\ diary = "" /\ tasks = <<>>
  /\ ~syncing /\ ~loadFailed /\ localCache[ev.key] = Absent

\* a loadJournal or retryLoad callback has just run
LoadCallback(e) == e.type \in {"cacheDone", "serverDone", "loadTimeout", "retryDone"}

\* C15: the completion of a read that was started for another period than the
\* one now selected changes neither the displayed record nor the sync flags
\* syncing and loadFailed.
C15_StaleLoadIsDiscarded ==
  [][(LoadCallback(ev') /\ ev'.key # selectedDate) =>
       /\ diary' = diary /\ tasks' = tasks
       /\ syncing' = syncing /\ loadFailed' = loadFailed]_vars

\* C16: once the user has edited the selected period, the displayed record is
\* that last edit, whatever read result arrives afterwards, and the pending
\* debounced write holds the displayed record.
C16_DisplayIsLastEdit ==
  (hasUserEdited /\ lastEdit.key = selectedDate) =>
    /\ diary = lastEdit.diary /\ tasks = lastEdit.tasks
    /\ \A t \in timers : t.ref => SameRecord(t, selectedDate, diary, tasks)

\* C17: an edit whose debounce timer is pending for a period that is no
\* longer the selected one, or while the view is closed, is not dropped: its
\* timer stays armed until the step that writes its record to the local cache
\* and initiates its remote put under the key it was made for.
C17_PendingEditSurvivesSwitch ==
  [][\A t \in timers :
       (t.key # selectedDate' \/ ~isOpen') =>
         \/ \E u \in timers' : SameRecord(u, t.key, t.diary, t.tasks)
         \/ /\ Len(puts') = Len(puts) + 1
            /\ PutIs(puts'[Len(puts')], t.key, t.diary, t.tasks)
            /\ localCache'[t.key] = Present(puts'[Len(puts')].data)]_vars

\* C18: when the load of a newly opened or changed period has started, no
\* debounce timer armed under another key is still armed, and the displayed
\* record is the local cache entry of the new key, or blank without one.
C18_LoadCancelsPreviousTimer ==
  ev.type \in {"open", "changeDate"} =>
    /\ \A t \in timers : t.key = ev.key
    /\ localCache[ev.key] = Absent => (diary = "" /\ tasks = <<>>)
    /\ localCache[ev.key] # Absent =>
         /\ diary = localCache[ev.key][1].diary
         /\ tasks = localCache[ev.key][1].tasks

\* C19: when forceSave returns, the displayed record is already in the local
\* cache entry of the selected period and its remote put has been initiated,
\* with no debounce timer left that a later action could cancel.
C19_ForceSaveIsImmediate ==
  ev.type = "forceSave" =>
    /\ localCache[selectedDate] # Absent
    /\ localCache[selectedDate][1].diary = diary
    /\ localCache[selectedDate][1].tasks = tasks
    /\ puts # <<>> /\ PutIs(puts[Len(puts)], selectedDate, diary, tasks)
    /\ ~Pending(timers)

\* C20: a remote put is initiated only by a flush, and at that moment the
\* local cache entry of the flushed key already holds the very record the put
\* carries (same diary, tasks and updatedAt); the failure or timeout of a
\* remote write leaves the local cache as the flush wrote it.
C20_LocalBeforeRemote ==
  [][/\ Len(puts') > Len(puts) =>
          /\ ev'.type = "fire" /\ Len(puts') = Len(puts) + 1
          /\ localCache'[ev'.key] = Present(puts'[Len(puts')].data)
          /\ \E i \in 1..Len(saves') :
               /\ saves'[i].seq = Len(puts') /\ saves'[i].key = ev'.key
               /\ saves'[i].data = puts'[Len(puts')].data
     /\ ev'.type \in {"saveDone", "saveTimeout"} => localCache' = localCache]_vars

\* C20 witness: the remote write of a flush failed and the record of that
\* flush is in the local cache, not in the remote store
C20_Witness ==
  /\ ev.type = "saveDone" /\ ev.out = "error" /\ Len(puts) = 1
  /\ localCache[ev.key] = Present(puts[1].data)
  /\ remote[ev.key] # Present(puts[1].data)

\* C21: retry leaves LoadFailed for Syncing and issues one server read and no
\* cache-replica read; when that read resolves the state is Synced, a present
\* document replacing the displayed record and the local cache entry of its
\* key and an absent one changing neither; when it fails the state is
\* LoadFailed again.
C21_RetryServerOnly ==
  [][/\ ev'.type = "retry" =>
          /\ loadFailed /\ ~loadFailed' /\ syncing'
          /\ loads' = loads
          /\ retries' = Append(retries, selectedDate)
          /\ diary' = diary /\ tasks' = tasks /\ localCache' = localCache
     /\ ev'.type = "retryDone" =>
          /\ ~syncing'
          /\ ev'.out = "present" =>
               /\ ~loadFailed'
               /\ diary' = remote[ev'.key][1].diary
               /\ tasks' = remote[ev'.key][1].tasks
               /\ localCache'[ev'.key] = remote[ev'.key]
          /\ ev'.out = "absent" =>
               /\ ~loadFailed'
               /\ diary' = diary /\ tasks' = tasks /\ localCache' = localCache
          /\ ev'.out \in {"error", "offline"} =>
               /\ loadFailed'
               /\ diary' = diary /\ tasks' = tasks /\ localCache' = localCache]_vars

\* C21 witness: the first load failed, the retry read the server's document
C21_Witness ==
  /\ ev.type = "retryDone" /\ ev.out = "present"
  /\ trace = <<"open", "retry">> /\ loads = <<>>
  /\ diary = ServerSeed.diary /\ localCache[ev.key] = Present(ServerSeed)
  /\ ~syncing /\ ~loadFailed

\* C22: reading a local cache entry whose content does not parse gives absent,
\* as for a missing key; the load of such a period paints a blank record,
\* counts as a cache miss and goes on to Syncing with the cache-replica read.
C22_MalformedIsAbsent ==
  /\ \A k \in Keys :
       localCache[k] \in {Absent, Unparsable} =>
         loadFromLocalCache(localCache, k) = Absent
  /\ (ev.type \in {"open", "changeDate"}
        /\ localCache[ev.key] \in {Absent, Unparsable}) =>
       /\ diary = "" /\ tasks = <<>>
       /\ syncing /\ ~loading /\ ~loadFailed
       /\ loads[Len(loads)] = [key |-> ev.key, hasCache |-> FALSE,
                               loaded |-> FALSE, phase |-> "cache",
                               rem |-> TimeoutMs]

\* C22 witness: the journal was opened on a period whose entry does not parse
C22_Witness ==
  /\ ev.type = "open" /\ localCache[ev.key] = Unparsable
  /\ diary = "" /\ tasks = <<>> /\ syncing /\ ~loads[1].hasCache

\* a continuation of a load, a retry or a flush has just run for key e.key
KeyedStep(e) ==
  e.type \in {"cacheDone", "serverDone", "loadTimeout", "lateRead", "retryDone",
              "fire", "saveDone", "saveTimeout"}

\* C23 (key isolation): every step of a load, a retry or a flush leaves the
\* local cache entries and the remote documents of all keys other than the
\* one it was started for unchanged, and what a load or retry stores locally
\* is the replica's or the server's document of its own key.
C23_KeyIsolation ==
  [][KeyedStep(ev') =>
       /\ \A k \in Keys \ {ev'.key} :
            localCache'[k] = localCache[k] /\ remote'[k] = remote[k]
       /\ (LoadCallback(ev') /\ localCache'[ev'.key] # localCache[ev'.key]) =>
            localCache'[ev'.key] \in {remote[ev'.key], Present(ReplicaSeed)}]_vars

\* C23 witness: the server read of a period that is no longer selected stored
\* its document under its own key, the selected period's entry staying absent
C23_Witness ==
  /\ ev.type = "serverDone" /\ ev.out = "present" /\ ev.key # selectedDate
  /\ localCache[ev.key] = remote[ev.key]
  /\ localCache[selectedDate] = Absent

\* C24 (failed-load guard): while loadFailed is set for the selected period no
\* remote put is initiated for it, and the copy-tasks action schedules no
\* write while loadFailed is set.
C24_FailedLoadGuard ==
  /\ (ev.type = "fire" /\ ev.out = "" /\ ev.key = selectedDate) => ~loadFailed
  /\ (ev.type = "copy" /\ ev.flag) => ~Pending(timers)

\* C25: a load or retry never replaces a local cache entry by a record whose
\* updatedAt is older than the entry's.
C25_NoOlderOverwrite ==
  [][(LoadCallback(ev') /\ localCache[ev'.key] # Absent
        /\ localCache'[ev'.key] # localCache[ev'.key]) =>
       localCache'[ev'.key][1].updatedAt >= localCache[ev'.key][1].updatedAt]_vars

\* nothing is in flight for the open view: no load or retry is waiting for a
\* read, no debounce timer is armed and no remote write is unsettled
Quiescent ==
  /\ isOpen
  /\ \A i \in 1..Len(loads) : loads[i].phase = "late"
  /\ retries = <<>> /\ timers = {} /\ saves = <<>>

\* C26 (quiescent consistency): with nothing in flight and loadFailed false,
\* the displayed record is the local cache entry of the selected period, or
\* blank when there is no entry.
C26_QuiescentConsistency ==
  (Quiescent /\ ~loadFailed) =>
    LET cached == loadFromLocalCache(localCache, selectedDate)
    IN IF cached = Absent
         THEN diary = "" /\ tasks = <<>>
         ELSE diary = cached[1].diary /\ tasks = cached[1].tasks

\* C27: a debounced flush writes, locally and remotely, the record that was
\* scheduled under the period that was selected when it was scheduled; when
\* another period is selected at firing time, that period's local cache entry
\* is left as it was.
C27_FlushUnderScheduleKey ==
  [][(ev'.type = "fire" /\ ev'.out = "") =>
       /\ Len(puts') = Len(puts) + 1
       /\ PutIs(puts'[Len(puts')], lastSched.key, lastSched.diary, lastSched.tasks)
       /\ localCache'[lastSched.key] = Present(puts'[Len(puts')].data)
       /\ selectedDate # lastSched.key =>
            localCache'[selectedDate] = localCache[selectedDate]]_vars

\* C27 witness: the period was changed between the edit and its flush
C27_Witness ==
  /\ ev.type = "fire" /\ ev.out = "" /\ ev.key # selectedDate
  /\ trace = <<"open", "edit", "changeDate">>
  /\ Len(puts) = 1 /\ puts[1].key = lastEdit.key /\ lastEdit.key # selectedDate
  /\ puts[1].data.diary = lastEdit.diary
  /\ localCache[lastEdit.key] = Present(puts[1].data)

\* C28: when a server read or a remote write settles after its 3000 ms
\* deadline has fired, the displayed record, the local cache and the flags
\* syncing, saving and loadFailed stay as they were.
C28_LateCompletionIgnored ==
  [][(ev'.type = "lateRead" \/ (ev'.type = "saveDone" /\ ~ev'.flag)) =>
       UNCHANGED <<diary, tasks, localCache, syncing, saving, loadFailed>>]_vars

\* C28 witness: the first load timed out without a hit, then its server read
\* succeeded with a document that is neither painted nor cached
C28_Witness ==
  /\ ev.type = "lateRead" /\ ev.out = "ok" /\ ~ev.flag
  /\ trace = <<"open">> /\ loads = <<>>
  /\ remote[ev.key] # Absent /\ localCache[ev.key] = Absent
  /\ diary = "" /\ loadFailed

\* C28 second witness: a remote write succeeded after its deadline had fired
C28_WitnessWrite ==
  /\ ev.type = "saveDone" /\ ~ev.flag /\ ev.out = "ok"
  /\ ~saving /\ remote[ev.key] = Present(puts[Len(puts)].data)

\* C29: a put to month M's document carries only tasks that were loaded from
\* or added under month M; after a month switch, a failed or out-of-order
\* load never lets an edit write another month's tasks under the new key.
C29_PutCarriesOwnMonth ==
  \A i \in 1..Len(monthPuts) :
    \A j \in 1..Len(monthPuts[i].data.tasks) :
      monthPuts[i].data.tasks[j].month = monthPuts[i].key

\* C30: every task keeps 0 <= completedCount <= targetCount through addTask,
\* incrementCompleted, decrementCompleted and deleteTask; increment adds one
\* below the target and nothing at it, decrement takes one above zero and
\* nothing at zero, and every other task is left as it was.
C30_CountWithinTarget ==
  [][ LET old == tasksData.tasks
          new == tasksData'.tasks
          e == monthEv'
      IN /\ \A i \in 1..Len(new) :
              /\ 0 <= new[i].completedCount
              /\ new[i].completedCount <= new[i].targetCount
         /\ e.type = "increment" =>
              /\ Len(new) = Len(old)
              /\ \A i \in 1..Len(old) :
                   new[i] = IF old[i].id = e.id
                              THEN [old[i] EXCEPT !.completedCount =
                                      IF @ < old[i].targetCount THEN @ + 1 ELSE @]
                              ELSE old[i]
         /\ e.type = "decrement" =>
              /\ Len(new) = Len(old)
              /\ \A i \in 1..Len(old) :
                   new[i] = IF old[i].id = e.id
                              THEN [old[i] EXCEPT !.completedCount =
                                      IF @ > 0 THEN @ - 1 ELSE @]
                              ELSE old[i]
         /\ e.type = "add" =>
              /\ Len(new) = Len(old) + 1
              /\ \A i \in 1..Len(old) : new[i] = old[i]
              /\ new[Len(new)].completedCount = 0
              /\ new[Len(new)].targetCount >= 1
         /\ e.type = "delete" =>
              new = SelectSeq(old, LAMBDA task : task.id # e.id)
    ]_vars

\* an increment pressed at the target: the put repeats
\* the task list of the put before it
C30_Witness ==
  /\ monthEv.type = "increment"
  /\ Len(monthPuts) >= 2
  /\ monthPuts[Len(monthPuts) - 1].data.tasks = tasksData.tasks
  /\ Len(tasksData.tasks) >= 1
  /\ \E i \in 1..Len(tasksData.tasks) :
       /\ tasksData.tasks[i].id = monthEv.id
       /\ tasksData.tasks[i].completedCount = tasksData.tasks[i].targetCount

====
